---------------------------- MODULE Spec2Model ----------------------------
(***************************************************************************)
(* Model of the plagiarism checker of src/app.py: the POST branch of       *)
(* index() (validation, query derivation, source discovery with the dedup  *)
(* frontier, content acquisition, scoring, ranking) and the n-gram scorer  *)
(* calculate_jaccard_similarity.                                           *)
(*                                                                         *)
(* A text is a sequence of lexemes.  A lexeme is a word ("a", "A", ...) or *)
(* the full stop ".", which is written directly after the lexeme before it *)
(* (no white space) while words are separated by white space.  A URL is a  *)
(* number in 1..NumUrls.  A similarity is the exact fraction num/den; the  *)
(* fractions that occur are far from the precision of a double, so the     *)
(* float comparison of line 108 is the comparison of the fractions.        *)
(***************************************************************************)
EXTENDS Integers, Sequences, FiniteSets, TLC

(***************************************************************************)
(* Bounds of the model.                                                    *)
(***************************************************************************)
NumUrls == 2
MaxLinks == 2
MaxTextLen == 4

(***************************************************************************)
(* Configuration, src/app.py lines 11-15.                                  *)
(***************************************************************************)
SEARCH_RESULT_COUNT == 30
NGRAM_SIZE == 3
PLAGIARISM_THRESHOLD == [num |-> 1, den |-> 5]

Range(s) == {s[i] : i \in DOMAIN s}

(***************************************************************************)
(* Library capabilities as the code uses them.                             *)
(***************************************************************************)
\* str.lower() on one lexeme
Lower(w) ==
  CASE w = "A" -> "a"
    [] w = "B" -> "b"
    [] w = "C" -> "c"
    [] w = "D" -> "d"
    [] OTHER -> w

\* a lexeme that starts a white-space separated word
StartsWord(text, i) == text[i] # "." \/ i = 1

\* len(text.split()): the number of white-space separated words
SplitCount(text) == Cardinality({i \in DOMAIN text : StartsWord(text, i)})

\* nltk.word_tokenize(text.lower()): every lexeme is a token, lower-cased
word_tokenize_lower(text) == [i \in DOMAIN text |-> Lower(text[i])]

\* the position of the first full stop of a non-empty text, or its length
FirstStop(text) ==
  LET stops == {i \in DOMAIN text : text[i] = "."}
  IN IF stops = {} THEN Len(text)
     ELSE CHOOSE i \in stops : \A j \in stops : i <= j

\* nltk.sent_tokenize(text): a sentence ends with its full stop
RECURSIVE sent_tokenize(_)
sent_tokenize(text) ==
  IF text = <<>> THEN <<>>
  ELSE LET k == FirstStop(text)
       IN <<SubSeq(text, 1, k)>> \o sent_tokenize(SubSeq(text, k + 1, Len(text)))

\* nltk.util.ngrams(tokens, n): the sliding windows, in order
ngrams(tokens, n) ==
  [i \in 1..(IF Len(tokens) >= n THEN Len(tokens) - n + 1 ELSE 0)
     |-> SubSeq(tokens, i, i + n - 1)]

(***************************************************************************)
(* calculate_jaccard_similarity, lines 59-76.  0.0 is the fraction 0/1.    *)
(***************************************************************************)
\* variant: the texts are not lower-cased
calculate_jaccard_similarity_nolower(text1, text2) ==
  LET ngrams1 == Range(ngrams(text1, NGRAM_SIZE))
      ngrams2 == Range(ngrams(text2, NGRAM_SIZE))
  IN IF ngrams1 = {} \/ ngrams2 = {}
     THEN [num |-> 0, den |-> 1]
     ELSE [num |-> Cardinality(ngrams1 \cap ngrams2),
           den |-> Cardinality(ngrams1 \cup ngrams2)]

calculate_jaccard_similarity(text1, text2) ==
  LET tokens1 == word_tokenize_lower(text1)
      tokens2 == word_tokenize_lower(text2)
      ngrams1 == Range(ngrams(tokens1, NGRAM_SIZE))
      ngrams2 == Range(ngrams(tokens2, NGRAM_SIZE))
  IN IF ngrams1 = {} \/ ngrams2 = {}
     THEN [num |-> 0, den |-> 1]
     ELSE [num |-> Cardinality(ngrams1 \cap ngrams2),
           den |-> Cardinality(ngrams1 \cup ngrams2)]

\* a > b on fractions with positive denominators
Greater(a, b) == a.num * b.den > b.num * a.den

\* line 108, similarity_score > PLAGIARISM_THRESHOLD
\* variant: >= in place of >
ExceedsThreshold_geq(sim) == ~Greater(PLAGIARISM_THRESHOLD, sim)

ExceedsThreshold(sim) == Greater(sim, PLAGIARISM_THRESHOLD)

\* line 111, round(similarity_score * 100): nearest integer, halves to even
\* (the halves that occur, k/8, are exact in binary floating point)
RoundPercent(sim) ==
  LET n == 100 * sim.num
      q == n \div sim.den
      r == n % sim.den
  IN IF 2 * r < sim.den THEN q
     ELSE IF 2 * r > sim.den THEN q + 1
     ELSE IF q % 2 = 0 THEN q ELSE q + 1

(***************************************************************************)
(* The dedup frontier, lines 90-91 and 97-100: the deque urls_to_check and *)
(* the set checked_urls.                                                   *)
(***************************************************************************)
\* variant: no membership test before the append
Offer_nocheck(url, fr) ==
  [queue |-> Append(fr.queue, url), seen |-> fr.seen \cup {url}]

Offer(url, fr) ==
  IF url \notin fr.seen
  THEN [queue |-> Append(fr.queue, url), seen |-> fr.seen \cup {url}]
  ELSE fr

\* the loop of lines 97-100 over found_urls
RECURSIVE OfferAll(_, _)
OfferAll(found_urls, fr) ==
  IF found_urls = <<>> THEN fr
  ELSE OfferAll(Tail(found_urls), Offer(Head(found_urls), fr))

(***************************************************************************)
(* get_search_urls, lines 19-39, on the outcome of the search request: the *)
(* result links in the provider's order, cut at SEARCH_RESULT_COUNT, or    *)
(* the empty list when requests raised a RequestException.                 *)
(***************************************************************************)
get_search_urls(resp) ==
  IF resp.kind = "links"
  THEN SubSeq(resp.links, 1,
              IF Len(resp.links) < SEARCH_RESULT_COUNT
              THEN Len(resp.links) ELSE SEARCH_RESULT_COUNT)
  ELSE <<>>

(***************************************************************************)
(* fetch_url_content, lines 41-57, on the outcome of the page request: the *)
(* visible text, or None when requests raised a RequestException.          *)
(***************************************************************************)
None == [kind |-> "none", text |-> <<>>]

fetch_url_content(resp) ==
  IF resp.kind = "page" THEN [kind |-> "text", text |-> resp.text] ELSE None

\* line 106, the truth value of web_content
Truthy(web_content) == web_content.kind = "text" /\ web_content.text # <<>>

(***************************************************************************)
(* list.sort(key=score, reverse=True), line 115: a stable sort, equal      *)
(* scores keep their order.                                                *)
(***************************************************************************)
RECURSIVE InsertDesc(_, _)
InsertDesc(sorted, x) ==
  IF sorted = <<>> THEN <<x>>
  ELSE IF Head(sorted).score >= x.score
       THEN <<Head(sorted)>> \o InsertDesc(Tail(sorted), x)
       ELSE <<x>> \o sorted

\* variant: equal scores change places
RECURSIVE InsertDesc_unstable(_, _)
InsertDesc_unstable(sorted, x) ==
  IF sorted = <<>> THEN <<x>>
  ELSE IF Head(sorted).score > x.score
       THEN <<Head(sorted)>> \o InsertDesc_unstable(Tail(sorted), x)
       ELSE <<x>> \o sorted

\* variant: a sort that is not stable
RECURSIVE SortByScoreDesc_unstable(_)
SortByScoreDesc_unstable(results) ==
  IF results = <<>> THEN <<>>
  ELSE InsertDesc_unstable(
         SortByScoreDesc_unstable(SubSeq(results, 1, Len(results) - 1)),
         results[Len(results)])

RECURSIVE SortByScoreDesc(_)
SortByScoreDesc(results) ==
  IF results = <<>> THEN <<>>
  ELSE InsertDesc(SortByScoreDesc(SubSeq(results, 1, Len(results) - 1)),
                  results[Len(results)])

(***************************************************************************)
(* Inputs: the documents submitted, the pages the web serves, the result   *)
(* lists the search provider returns.                                      *)
(***************************************************************************)
DocEmpty == <<>>
DocTwoWords == <<"a", "b">>
DocTwoWordsStop == <<"a", "b", ".">>
DocOne == <<"a", "b", "a", "a", "c", "a", "a", "d", "a", "b", "b">>
DocThree == <<"a", "b", ".", "c", "d", ".", "a", "b", ".">>
Documents == {DocEmpty, DocTwoWords, DocTwoWordsStop, DocOne, DocThree}

PageSame == <<"A", "B", ".", "C", "D", ".", "A", "B", ".">>
PageThird == <<"a", "b", ".", "c">>
PageFifth == <<"a", "b", ".", "c", "e", "d", "e", "a">>
PageLong ==
  <<"a", "b", "a", "a", "c", "a", "a", "d", "a", "b", "b", "a", "b", "c",
    "a", "b", "d", "a", "c", "b", "a", "c", "c", "a", "c", "d", "a", "d",
    "b", "a", "d", "c", "a", "d", "d", "b", "b", "b", "c", "b", "b", "d",
    "b", "c", "c", "b">>
Pages == {<<>>, PageSame, PageThird, PageFifth, PageLong}

Urls == 1..NumUrls

SeqsUpTo(S, n) == UNION {[1..k -> S] : k \in 0..n}

\* what the search request can do and get_search_urls handles
SearchResponses ==
  {[kind |-> "links", links |-> l] : l \in SeqsUpTo(Urls, MaxLinks)}
    \cup {[kind |-> "request_exception", links |-> <<>>]}

\* what the page request can do and fetch_url_content handles
FetchResponses ==
  {[kind |-> "page", text |-> p] : p \in Pages}
    \cup {[kind |-> "request_exception", text |-> <<>>]}

\* the texts of the scorer's own specification
SimAlphabet == {"a", "b", "A"}
SimTexts == SeqsUpTo(SimAlphabet, MaxTextLen)

VARIABLES
  pc,                 \* where index() is
  user_text,          \* line 83
  sentences,          \* line 88
  search_queries,     \* line 94, in the order the loop of line 95 iterates
  qi,                 \* position of the loop of line 95
  urls_to_check,      \* line 90
  checked_urls,       \* line 91
  ui,                 \* position of the loop of line 104
  plagiarism_results, \* line 103
  searched,           \* the queries of the search requests issued, in order
  found,              \* what get_search_urls returned for each of them
  fetched,            \* the URLs of the page requests issued, in order
  web,                \* what fetch_url_content returned, per URL
  text1, text2,       \* arguments of calculate_jaccard_similarity
  similarity          \* its result

pvars == <<pc, user_text, sentences, search_queries, qi, urls_to_check,
           checked_urls, ui, plagiarism_results, searched, found, fetched, web>>
svars == <<text1, text2, similarity>>
vars == <<pvars, svars>>

NotFetched == [kind |-> "unfetched", text |-> <<>>]
NoSimilarity == [num |-> 0, den |-> 0]

Init ==
  /\ pc = "received"
  /\ user_text \in Documents
  /\ sentences = <<>>
  /\ search_queries = <<>>
  /\ qi = 0
  /\ urls_to_check = <<>>
  /\ checked_urls = {}
  /\ ui = 0
  /\ plagiarism_results = <<>>
  /\ searched = <<>>
  /\ found = <<>>
  /\ fetched = <<>>
  /\ web = [u \in Urls |-> NotFetched]
  /\ text1 = <<>>
  /\ text2 = <<>>
  /\ similarity = NoSimilarity

(***************************************************************************)
(* index(), POST branch.                                                   *)
(***************************************************************************)
\* variant: only the emptiness test
Insufficient_nolength(text) == text = <<>>

\* line 84
Insufficient(text) == text = <<>> \/ SplitCount(text) < NGRAM_SIZE

\* lines 83-85
Validate ==
  /\ pc = "received"
  /\ pc' = IF Insufficient(user_text) THEN "insufficient" ELSE "validated"
  /\ UNCHANGED <<user_text, sentences, search_queries, qi, urls_to_check,
                 checked_urls, ui, plagiarism_results, searched, found,
                 fetched, web>>
  /\ UNCHANGED svars

\* the three sentences of line 94
KeySentences(sents) ==
  {sents[1], sents[(Len(sents) \div 2) + 1], sents[Len(sents)]}

\* list(set(...)): the elements of the set in some order
Orders(S) == {s \in [1..Cardinality(S) -> S] : Range(s) = S}

\* lines 88-94
DeriveQueries ==
  /\ pc = "validated"
  /\ sentences' = sent_tokenize(user_text)
  /\ urls_to_check' = <<>>
  /\ checked_urls' = {}
  /\ \E order \in Orders(KeySentences(sentences')) : search_queries' = order
  /\ qi' = 1
  /\ pc' = "discover"
  /\ UNCHANGED <<user_text, ui, plagiarism_results, searched, found, fetched, web>>
  /\ UNCHANGED svars

\* lines 95-100, one iteration: the search returns or fails with a
\* RequestException
Search ==
  /\ pc = "discover"
  /\ qi <= Len(search_queries)
  /\ \E resp \in SearchResponses :
       LET found_urls == get_search_urls(resp)
           fr == OfferAll(found_urls,
                          [queue |-> urls_to_check, seen |-> checked_urls])
       IN /\ searched' = Append(searched, search_queries[qi])
          /\ found' = Append(found, found_urls)
          /\ urls_to_check' = fr.queue
          /\ checked_urls' = fr.seen
  /\ qi' = qi + 1
  /\ UNCHANGED <<pc, user_text, sentences, search_queries, ui,
                 plagiarism_results, fetched, web>>
  /\ UNCHANGED svars

\* line 96: an exception that is not a RequestException (BeautifulSoup
\* rejecting the markup, line 30) is not caught by line 37 and leaves index()
SearchRaises ==
  /\ pc = "discover"
  /\ qi <= Len(search_queries)
  /\ searched' = Append(searched, search_queries[qi])
  /\ pc' = "error"
  /\ UNCHANGED <<user_text, sentences, search_queries, qi, urls_to_check,
                 checked_urls, ui, plagiarism_results, found, fetched, web>>
  /\ UNCHANGED svars

\* variant: the fetch loop starts before the query loop is over
StartChecking_early ==
  /\ pc = "discover"
  /\ qi > 1
  /\ plagiarism_results' = <<>>
  /\ ui' = 1
  /\ pc' = "check"
  /\ UNCHANGED <<user_text, sentences, search_queries, qi, urls_to_check,
                 checked_urls, searched, found, fetched, web>>
  /\ UNCHANGED svars

\* lines 103-104: the loop over the queries is over
StartChecking ==
  /\ pc = "discover"
  /\ qi > Len(search_queries)
  /\ plagiarism_results' = <<>>
  /\ ui' = 1
  /\ pc' = "check"
  /\ UNCHANGED <<user_text, sentences, search_queries, qi, urls_to_check,
                 checked_urls, searched, found, fetched, web>>
  /\ UNCHANGED svars

\* lines 106-112 for one URL and its content
Scored(results, url, web_content, doc) ==
  IF Truthy(web_content)
  THEN LET similarity_score == calculate_jaccard_similarity(doc, web_content.text)
       IN IF ExceedsThreshold(similarity_score)
          THEN Append(results, [url |-> url, score |-> RoundPercent(similarity_score)])
          ELSE results
  ELSE results

\* lines 104-112, one iteration: the fetch returns or fails with a
\* RequestException
Check ==
  /\ pc = "check"
  /\ ui <= Len(urls_to_check)
  /\ \E resp \in FetchResponses :
       LET url == urls_to_check[ui]
           web_content == fetch_url_content(resp)
       IN /\ fetched' = Append(fetched, url)
          /\ web' = [web EXCEPT ![url] = web_content]
          /\ plagiarism_results' =
               Scored(plagiarism_results, url, web_content, user_text)
  /\ ui' = ui + 1
  /\ UNCHANGED <<pc, user_text, sentences, search_queries, qi, urls_to_check,
                 checked_urls, searched, found>>
  /\ UNCHANGED svars

\* line 105: an exception that is not a RequestException (BeautifulSoup
\* rejecting the markup, line 46) is not caught by line 55 and leaves index()
CheckRaises ==
  /\ pc = "check"
  /\ ui <= Len(urls_to_check)
  /\ fetched' = Append(fetched, urls_to_check[ui])
  /\ pc' = "error"
  /\ UNCHANGED <<user_text, sentences, search_queries, qi, urls_to_check,
                 checked_urls, ui, plagiarism_results, searched, found, web>>
  /\ UNCHANGED svars

\* line 115
Rank ==
  /\ pc = "check"
  /\ ui > Len(urls_to_check)
  /\ plagiarism_results' = SortByScoreDesc(plagiarism_results)
  /\ pc' = "ranked"
  /\ UNCHANGED <<user_text, sentences, search_queries, qi, urls_to_check,
                 checked_urls, ui, searched, found, fetched, web>>
  /\ UNCHANGED svars

\* line 117
Respond ==
  /\ pc = "ranked"
  /\ pc' = "done"
  /\ UNCHANGED <<user_text, sentences, search_queries, qi, urls_to_check,
                 checked_urls, ui, plagiarism_results, searched, found,
                 fetched, web>>
  /\ UNCHANGED svars

Next ==
  \/ Validate
  \/ DeriveQueries
  \/ Search
  \/ SearchRaises
  \/ StartChecking
  \/ Check
  \/ CheckRaises
  \/ Rank
  \/ Respond

Spec == Init /\ [][Next]_vars

(***************************************************************************)
(* The scorer on its own: every pair of texts over SimAlphabet.            *)
(***************************************************************************)
InitSim ==
  /\ pc = "scorer"
  /\ user_text = <<>>
  /\ sentences = <<>>
  /\ search_queries = <<>>
  /\ qi = 0
  /\ urls_to_check = <<>>
  /\ checked_urls = {}
  /\ ui = 0
  /\ plagiarism_results = <<>>
  /\ searched = <<>>
  /\ found = <<>>
  /\ fetched = <<>>
  /\ web = [u \in Urls |-> NotFetched]
  /\ text1 \in SimTexts
  /\ text2 \in SimTexts
  /\ similarity = NoSimilarity

Compare ==
  /\ similarity = NoSimilarity
  /\ similarity' = calculate_jaccard_similarity(text1, text2)
  /\ UNCHANGED <<text1, text2>>
  /\ UNCHANGED pvars

NextSim == Compare

SpecSim == InitSim /\ [][NextSim]_vars

(***************************************************************************)
(* Properties.                                                             *)
(***************************************************************************)
NoDuplicates(s) == \A i, j \in DOMAIN s : i # j => s[i] # s[j]

ResultUrls == [i \in DOMAIN plagiarism_results |-> plagiarism_results[i].url]

Position(s, x) == CHOOSE i \in DOMAIN s : s[i] = x

\* C1: within one document check every distinct URL is fetched and scored
\* at most once and appears at most once in the results, whatever the
\* search responses were
C1_EachUrlOnce ==
  /\ NoDuplicates(urls_to_check)
  /\ NoDuplicates(fetched)
  /\ NoDuplicates(ResultUrls)

\* a finished check in which one query returned the same URL twice, another
\* query returned it again, and the URL is in the results
C1_Witness ==
  /\ pc = "done"
  /\ Len(found) = 2
  /\ \E u \in Urls :
       /\ found[1] = <<u, u>>
       /\ u \in Range(found[2])
       /\ u \in Range(ResultUrls)

\* the threshold as a percentage is 100 * num / den
\* C2 as stated: every result's score is strictly greater than the threshold
C2_ScoreAboveThreshold ==
  \A i \in DOMAIN plagiarism_results :
    plagiarism_results[i].score * PLAGIARISM_THRESHOLD.den
      > 100 * PLAGIARISM_THRESHOLD.num

\* C2 as amended: every result's similarity before rounding is strictly
\* greater than the threshold; its score is that similarity rounded to a
\* whole percentage, which is at least the threshold percentage
C2_SimilarityAboveThreshold ==
  \A i \in DOMAIN plagiarism_results :
    LET r == plagiarism_results[i]
        sim == calculate_jaccard_similarity(user_text, web[r.url].text)
    IN /\ web[r.url].kind = "text"
       /\ sim.num * PLAGIARISM_THRESHOLD.den > PLAGIARISM_THRESHOLD.num * sim.den
       /\ r.score = RoundPercent(sim)
       /\ r.score * PLAGIARISM_THRESHOLD.den >= 100 * PLAGIARISM_THRESHOLD.num

\* a finished check with a result, in which a page whose similarity is
\* exactly the threshold was fetched and left out
C2_Witness ==
  /\ pc = "done"
  /\ plagiarism_results # <<>>
  /\ \E u \in Range(fetched) :
       LET sim == calculate_jaccard_similarity(user_text, web[u].text)
       IN /\ web[u].kind = "text"
          /\ sim.num > 0
          /\ sim.num * PLAGIARISM_THRESHOLD.den = PLAGIARISM_THRESHOLD.num * sim.den
          /\ u \notin Range(ResultUrls)

\* C3: the returned results are in non-increasing order of score, and
\* results of equal score are in the order in which their URLs were first
\* offered to the frontier
C3_RankedStable ==
  pc \in {"ranked", "done"} =>
    \A i, j \in DOMAIN plagiarism_results :
      i < j =>
        /\ plagiarism_results[i].score >= plagiarism_results[j].score
        /\ plagiarism_results[i].score = plagiarism_results[j].score
             => Position(urls_to_check, plagiarism_results[i].url)
                  < Position(urls_to_check, plagiarism_results[j].url)

\* a finished check with two results of equal score
C3_Witness ==
  /\ pc = "done"
  /\ Len(plagiarism_results) >= 2
  /\ plagiarism_results[1].score = plagiarism_results[2].score

\* C4: a document that is empty or has fewer than NGRAM_SIZE tokens (or
\* words) gets the "insufficient input" answer, with no search request, no
\* fetch request and no frontier or result built
C4_InsufficientInput ==
  (/\ pc # "received"
   /\ \/ Len(word_tokenize_lower(user_text)) < NGRAM_SIZE
      \/ Cardinality({i \in DOMAIN user_text : user_text[i] # "."}) < NGRAM_SIZE)
    => /\ pc = "insufficient"
       /\ searched = <<>>
       /\ fetched = <<>>
       /\ search_queries = <<>>
       /\ urls_to_check = <<>>
       /\ checked_urls = {}
       /\ plagiarism_results = <<>>

\* a two-word document was answered "insufficient input"
C4_Witness == pc = "insufficient" /\ user_text = DocTwoWords

\* the results index() returns for the frontier `queue` and the contents
\* web, lines 103-115
RECURSIVE ResultsOf(_, _)
ResultsOf(queue, acc) ==
  IF queue = <<>> THEN acc
  ELSE ResultsOf(Tail(queue), Scored(acc, Head(queue), web[Head(queue)], user_text))

\* C5: a failure of content acquisition for one URL only skips that URL:
\* the check goes on, every URL of the frontier is fetched, and the results
\* are those of the frontier without the URLs whose content is absent
C5_AcquisitionFailureIsolated ==
  /\ ~(pc = "error" /\ fetched # <<>>)
  /\ pc = "done" =>
       /\ fetched = urls_to_check
       /\ LET Present(u) == web[u].kind = "text"
          IN plagiarism_results =
               SortByScoreDesc(ResultsOf(SelectSeq(urls_to_check, Present), <<>>))

\* C6: a failure of source discovery for one query yields no URL for that
\* query and does not abort the check: every derived query is searched
C6_DiscoveryFailureIsolated ==
  /\ ~(pc = "error" /\ fetched = <<>>)
  /\ pc \in {"check", "ranked", "done"} => searched = search_queries

\* C7: once validation has passed, the check is at Done with its results or
\* can still take a step: no outcome of an external call ends it elsewhere
C7_ReachesDone ==
  pc \notin {"received", "insufficient"} => (pc = "done" \/ ENABLED Next)

\* the frontier index() builds when its loop takes the queries in `order`
\* and get_search_urls returns what it returned in this run, lines 95-100
RECURSIVE FrontierOf(_, _)
FrontierOf(order, fr) ==
  IF order = <<>> THEN fr
  ELSE FrontierOf(Tail(order),
                  OfferAll(found[Position(searched, Head(order))], fr))

\* C8: with the document and the responses fixed, the results do not depend
\* on the order in which the set of derived queries is iterated
C8_Deterministic ==
  pc = "done" =>
    \A order \in Orders(Range(search_queries)) :
      plagiarism_results =
        SortByScoreDesc(
          ResultsOf(FrontierOf(order, [queue |-> <<>>, seen |-> {}]).queue, <<>>))

\* the set of windows of NGRAM_SIZE lower-case tokens of a text
G(X) ==
  {[k \in 1..NGRAM_SIZE |-> Lower(X[i + k - 1])] : i \in 1..(Len(X) - NGRAM_SIZE + 1)}

\* C9: similarity(A, B) is |G(A) \cap G(B)| / |G(A) \cup G(B)|, is 0 with
\* no division by zero when A or B has fewer than NGRAM_SIZE tokens, and
\* lies in [0, 1]
C9_Jaccard ==
  similarity # NoSimilarity =>
    /\ similarity.den > 0
    /\ 0 <= similarity.num
    /\ similarity.num <= similarity.den
    /\ IF Len(text1) < NGRAM_SIZE \/ Len(text2) < NGRAM_SIZE
       THEN similarity.num = 0
       ELSE similarity.num * Cardinality(G(text1) \cup G(text2))
              = similarity.den * Cardinality(G(text1) \cap G(text2))

\* two texts that differ in case were scored 1/3
C9_Witness ==
  /\ similarity = [num |-> 1, den |-> 3]
  /\ "A" \in Range(text1)
  /\ "A" \notin Range(text2)

PhaseRank(p) ==
  CASE p = "received" -> 0
    [] p = "validated" -> 1
    [] p = "discover" -> 2
    [] p = "check" -> 3
    [] p = "ranked" -> 4
    [] p = "done" -> 5
    [] OTHER -> 6

IsPrefix(s, t) == Len(s) <= Len(t) /\ s = SubSeq(t, 1, Len(s))

C10_State ==
  /\ fetched # <<>> => searched = search_queries
  /\ IsPrefix(fetched, urls_to_check)
  /\ pc \in {"ranked", "done"} => fetched = urls_to_check

C10_Step ==
  /\ PhaseRank(pc') >= PhaseRank(pc)
  /\ fetched # <<>> => searched' = searched
  /\ pc \in {"check", "ranked", "done"} => urls_to_check' = urls_to_check

\* C10: a check only moves forward through its phases; no page is fetched
\* before every derived query has been searched, no search follows the
\* first fetch, the URLs are fetched in first-offered order, and ranking
\* happens only when every URL of the frontier has been fetched
C10_ForwardOnly == []C10_State /\ [][C10_Step]_vars

\* a finished check that searched two queries and fetched two URLs
C10_Witness == pc = "done" /\ Len(searched) = 2 /\ Len(fetched) = 2

=============================================================================
